---- MODULE Spec2Model ----
(***************************************************************************)
(* A model of forn8n.js: the JSON job store (initStorage, loadMessages,    *)
(* saveMessage, getMessage), the retry wrapper safeCall, the session       *)
(* initialiser initializeMidjourney and the two HTTP handlers              *)
(* POST /generate-images and POST /generate-upscale-from-variation.        *)
(***************************************************************************)
EXTENDS Integers, Sequences, FiniteSets, TLC

(***************************************************************************)
(* Bounds of the model.                                                    *)
(***************************************************************************)
\* MAX_STORAGE_SIZE is 100 in the source (forn8n.js:73); the model keeps the
\* algorithm and scales the cap so that the N+1-th insertion is reachable.
MAX_STORAGE_SIZE == 2
\* The clock advances in steps of TickMs; it starts at TickMs and stops
\* after MaxTicks further steps.
MaxTicks == 3
\* Inodes the file system can hold at once (live files and open descriptors).
MaxInode == 4
\* Connection attempts that may fail in one run of the session model.
MaxConnectFailures == 2

TickMs == 12 * 60 * 60 * 1000
MAX_STORAGE_AGE_MS == 24 * 60 * 60 * 1000

(***************************************************************************)
(* Job ids.  Object.entries lists the keys of a JavaScript object with the *)
(* canonical array indices ("7") first, in ascending numeric order, and    *)
(* the other string keys after them in insertion order.  KeyIndex gives    *)
(* the array index a key denotes, or -1 for a key that is none.            *)
(***************************************************************************)
StoreIds == {"a", "b", "c", "7"}

KeyIndex(k) == CASE k = "7" -> 7 [] k = "3" -> 3 [] OTHER -> -1

IsArrayIndex(k) == KeyIndex(k) >= 0

(***************************************************************************)
(* JavaScript objects used as maps: a sequence of [key, val] in own-key    *)
(* order.                                                                  *)
(***************************************************************************)
ObjHas(obj, k) == \E i \in 1..Len(obj) : obj[i].key = k

ObjGet(obj, k) == obj[CHOOSE i \in 1..Len(obj) : obj[i].key = k].val

ObjKeys(obj) == {obj[i].key : i \in 1..Len(obj)}

\* The position at which a new key k is listed among the keys of obj.
NewKeyPosition(obj, k) ==
    IF IsArrayIndex(k)
    THEN 1 + Cardinality({i \in 1..Len(obj) :
                 IsArrayIndex(obj[i].key) /\ KeyIndex(obj[i].key) < KeyIndex(k)})
    ELSE Len(obj) + 1

\* obj[k] = v: an existing key keeps its position.
ObjSet(obj, k, v) ==
    IF ObjHas(obj, k)
    THEN [i \in 1..Len(obj) |->
             IF obj[i].key = k THEN [key |-> k, val |-> v] ELSE obj[i]]
    ELSE LET p == NewKeyPosition(obj, k)
         IN  SubSeq(obj, 1, p - 1) \o <<[key |-> k, val |-> v]>>
                 \o SubSeq(obj, p, Len(obj))

RECURSIVE ObjFromEntries(_)
ObjFromEntries(entries) ==
    IF entries = <<>> THEN <<>>
    ELSE LET n == Len(entries)
         IN  ObjSet(ObjFromEntries(SubSeq(entries, 1, n - 1)),
                    entries[n].key, entries[n].val)

\* Array.prototype.slice(-n) for n > 0.
SliceLast(s, n) ==
    IF Len(s) <= n THEN s ELSE SubSeq(s, Len(s) - n + 1, Len(s))

(***************************************************************************)
(* The file system: a directory from path to inode (0: no such file) and   *)
(* the content of each inode.  fs.writeFile opens with truncation and then *)
(* writes; fs.rename moves the directory entry.                            *)
(***************************************************************************)
STORAGE_FILE == "midjourney-data.json"
tempFile == "midjourney-data.json.tmp"
Paths == {STORAGE_FILE, tempFile}

NoMessages == <<>>
Free == [kind |-> "free", wrapped |-> FALSE, messages |-> NoMessages]
EmptyContent == [kind |-> "empty", wrapped |-> FALSE, messages |-> NoMessages]
Garbage == [kind |-> "garbage", wrapped |-> FALSE, messages |-> NoMessages]
ENOENT == [kind |-> "ENOENT", wrapped |-> FALSE, messages |-> NoMessages]
\* JSON.stringify({ messages: m }, null, 2)
Doc(m) == [kind |-> "doc", wrapped |-> TRUE, messages |-> m]
\* a document in the older layout, the mapping itself at the top level
FlatDoc(m) == [kind |-> "doc", wrapped |-> FALSE, messages |-> m]

Null == [id |-> "null", flags |-> 0, hasOptions |-> FALSE, options |-> <<>>,
         uri |-> "", attachment |-> "", timestamp |-> 0]

Inodes == 1..MaxInode

ReadFile(f, path) == IF f.dir[path] = 0 THEN ENOENT ELSE f.data[f.dir[path]]

\* An inode with no directory entry and no open descriptor is released.
\* (x is the value of f, computed once.)
Reclaim(f) ==
    CHOOSE g \in {[x EXCEPT !.data = [i \in Inodes |->
                       IF (\E p \in Paths : x.dir[p] = i) \/ x.refs[i] > 0
                       THEN x.data[i] ELSE Free]] : x \in {f}} : TRUE

\* open(path, 'w'): creates the file or truncates the existing one.
OpenTrunc(f, path) ==
    LET fd == IF f.dir[path] # 0 THEN f.dir[path]
              ELSE CHOOSE i \in Inodes :
                       /\ f.data[i].kind = "free"
                       /\ \A j \in Inodes : f.data[j].kind = "free" => i <= j
    IN  [fd |-> fd,
         fs |-> [f EXCEPT !.dir[path] = fd,
                          !.data[fd] = EmptyContent,
                          !.refs[fd] = @ + 1]]

WriteFd(f, fd, content) == [f EXCEPT !.data[fd] = content]

CloseFd(f, fd) == Reclaim([f EXCEPT !.refs[fd] = @ - 1])

\* fs.writeFile(path, content), run to completion without interruption.
WriteFile(f, path, content) ==
    LET o == OpenTrunc(f, path)
    IN  CloseFd(WriteFd(o.fs, o.fd, content), o.fd)

\* fs.rename(from, to): fails with ENOENT when from does not exist.
Rename(f, from, to) ==
    IF f.dir[from] = 0
    THEN [err |-> TRUE, fs |-> f]
    ELSE [err |-> FALSE,
          fs |-> Reclaim([f EXCEPT !.dir[to] = f.dir[from], !.dir[from] = 0])]

(***************************************************************************)
(* The job store.                                                          *)
(***************************************************************************)
\* JSON.parse of a document: the mapping, its keys in own-key order.
JSONParse(c) == ObjFromEntries(c.messages)

\* What initStorage's check of the existing file concludes.
StorageIsValid(c) == c.kind = "doc"

\* initStorage, run to completion.
InitStorage(f) ==
    IF StorageIsValid(ReadFile(f, STORAGE_FILE)) THEN f
    ELSE WriteFile(f, STORAGE_FILE, Doc(NoMessages))

\* loadMessages' three outcomes for the content it read.
LoadOutcome(c) ==
    CASE c.kind = "doc" -> "parsed"
      [] c.kind = "empty" -> "blank"
      [] OTHER -> "reset"

\* loadMessages, run to completion.
LoadMessages(f) ==
    LET c == ReadFile(f, STORAGE_FILE)
    IN  CASE LoadOutcome(c) = "parsed" -> [fs |-> f, messages |-> JSONParse(c)]
          [] LoadOutcome(c) = "blank" -> [fs |-> f, messages |-> NoMessages]
          [] OTHER -> [fs |-> WriteFile(f, STORAGE_FILE, Doc(NoMessages)),
                       messages |-> NoMessages]

\* { ...messageData, timestamp: Date.now() }
WithTimestamp(messageData, t) == [messageData EXCEPT !.timestamp = t]

\* The age test with its operands exchanged: no entry is ever too old.
KeepByAgeSwapped(val, t) ==
    (IF val.timestamp # 0 THEN val.timestamp ELSE t) - t <= MAX_STORAGE_AGE_MS

\* now - (data.timestamp || now) <= MAX_STORAGE_AGE_MS
KeepByAge(val, t) ==
    t - (IF val.timestamp # 0 THEN val.timestamp ELSE t) <= MAX_STORAGE_AGE_MS

AgeFilter(messages, t) == SelectSeq(messages, LAMBDA e : KeepByAge(e.val, t))

CleanedMessages(messages, t) ==
    ObjFromEntries(SliceLast(AgeFilter(messages, t), MAX_STORAGE_SIZE))

\* A put that writes its own entry only, not the mapping it loaded.
UpdatedAlone(messages, id, messageData, t) ==
    CleanedMessages(ObjSet(NoMessages, id, WithTimestamp(messageData, t)), t)

\* The mapping saveMessage computes from the one it loaded.
Updated(messages, id, messageData, t) ==
    CleanedMessages(ObjSet(messages, id, WithTimestamp(messageData, t)), t)

\* saveMessage, run to completion: [err, fs].  (l is what loadMessages
\* returned and w the file system after the write, each computed once.)
SaveMessage(f, id, messageData, t) ==
    CHOOSE r \in {Rename(w, tempFile, STORAGE_FILE) :
                     w \in {WriteFile(l.fs, tempFile,
                                      Doc(Updated(l.messages, id, messageData, t))) :
                                l \in {LoadMessages(f)}}} : TRUE

\* messages[id] || null
Lookup(messages, id) == IF ObjHas(messages, id) THEN ObjGet(messages, id) ELSE Null

\* getMessage, run to completion: [value, fs].
GetMessage(f, id) ==
    LET l == LoadMessages(f)
    IN  [value |-> Lookup(l.messages, id), fs |-> l.fs]

(***************************************************************************)
(* State.                                                                  *)
(***************************************************************************)
VARIABLES
    fs,           \* the file system: [dir, data, refs]
    now,          \* Date.now(), in ms since the clock's origin
    tracked,      \* observer: one put under observation and what was put since
    lastPutTime,  \* observer: the time of the last completed saveMessage
    procs,        \* the store operations in flight: each one's position and locals
    observed,     \* what the last read of the storage file by a reader returned
    mjInitialized,\* the session flag
    h,            \* the HTTP requests being handled: each one's position and locals
    trace         \* the external calls, waits, store writes and responses so far

vars == <<fs, now, tracked, lastPutTime, procs, observed, mjInitialized, h, trace>>
\* The variables the operations of the store leave alone when they run one
\* at a time, those the interleaved store operations leave alone, and those
\* the request handlers leave alone.
notStore == <<procs, observed, mjInitialized, h, trace>>
notFiles == <<now, tracked, lastPutTime, mjInitialized, h, trace>>
notHandlers == <<now, tracked, lastPutTime, procs, observed>>

\* A job record as the client library returns it, with the fields the program reads.
Message(id, flags, hasOptions, options, uri, attachment, timestamp) ==
    [id |-> id, flags |-> flags, hasOptions |-> hasOptions, options |-> options,
     uri |-> uri, attachment |-> attachment, timestamp |-> timestamp]

\* The file system with the storage file holding c (ENOENT: no storage file).
DiskWith(c) ==
    [dir |-> [p \in Paths |-> IF p = STORAGE_FILE /\ c.kind # "ENOENT" THEN 1 ELSE 0],
     data |-> [i \in Inodes |-> IF i = 1 /\ c.kind # "ENOENT" THEN c ELSE Free],
     refs |-> [i \in Inodes |-> 0]]

\* A store operation in flight: its position pc, the id it is about, the
\* mapping it holds, its open descriptor and how it ended.  Boot is the
\* initStorage() of the process start; each of the Workers is a request that
\* performs one saveMessage or one getMessage.
Boot == "boot"
Workers == {"w1", "w2"}
Procs == Workers \cup {Boot}
Idle == [pc |-> "idle", op |-> "none", id |-> "", messages |-> NoMessages, fd |-> 0,
         err |-> FALSE, value |-> Null]
NotRead == [read |-> FALSE, torn |-> FALSE, kind |-> "none"]

NoTrack == [on |-> FALSE, id |-> "", rec |-> Null, inserted |-> 0, time |-> 0,
            others |-> {}]

(***************************************************************************)
(* SpecStore: the store used by one caller at a time.  Every operation     *)
(* runs to completion before the next one starts.                          *)
(***************************************************************************)
\* The record a caller puts under id; the records of "a" and "7" come with a
\* timestamp of the caller's own (5), the others with none (0).
CallerTimestamp(id) == IF id \in {"a", "7"} THEN 5 ELSE 0
StoreRecord(id) == Message(id, 64, TRUE, <<>>, "uri-" \o id, "", CallerTimestamp(id))

InitStore ==
    /\ fs \in {DiskWith(c) : c \in {ENOENT, EmptyContent, Garbage,
                                     Doc(NoMessages), FlatDoc(NoMessages)}}
    /\ now = TickMs
    /\ tracked = NoTrack
    /\ lastPutTime = 0
    /\ procs = [p \in Procs |-> Idle]
    /\ observed = NotRead
    /\ mjInitialized = FALSE
    /\ h = <<>>
    /\ trace = <<>>

\* The observer after put(id, rec) at time t; present: id was a key of the
\* mapping before the put.  It may start observing a put that inserts a new
\* key; it counts the distinct new keys inserted after the observed one.
TrackAfterPut(id, rec, t, present) ==
    IF tracked.on /\ tracked.id = id
    THEN {[tracked EXCEPT !.rec = rec, !.time = t,
                          !.inserted = IF present THEN @ ELSE t,
                          !.others = IF present THEN @ ELSE {}]}
    ELSE {IF tracked.on /\ ~present
          THEN [tracked EXCEPT !.others = @ \cup {id}] ELSE tracked}
         \cup (IF present THEN {}
               ELSE {[on |-> TRUE, id |-> id, rec |-> rec, inserted |-> t, time |-> t,
                      others |-> {}]})

\* put(id, record): saveMessage(id, messageData)
Put(id, messageData) ==
    LET r == SaveMessage(fs, id, messageData, now)
        present == ObjHas(LoadMessages(fs).messages, id)
    IN  /\ ~r.err
        /\ fs' = r.fs
        /\ lastPutTime' = now
        /\ tracked' \in TrackAfterPut(id, messageData, now, present)
        /\ UNCHANGED <<now, notStore>>

\* get(id): getMessage(id); loadMessages rewrites an unreadable file.
Get(id) ==
    /\ fs' = GetMessage(fs, id).fs
    /\ UNCHANGED <<now, tracked, lastPutTime, notStore>>

\* The process starts again: initStorage().
Restart ==
    /\ fs' = InitStorage(fs)
    /\ UNCHANGED <<now, tracked, lastPutTime, notStore>>

\* Time passes.
Tick ==
    /\ now < (MaxTicks + 1) * TickMs
    /\ now' = now + TickMs
    /\ UNCHANGED <<fs, tracked, lastPutTime, notStore>>

NextStore ==
    \/ \E id \in StoreIds : Put(id, StoreRecord(id))
    \/ \E id \in StoreIds : Get(id)
    \/ Restart
    \/ Tick

SpecStore == InitStore /\ [][NextStore]_vars

\* The mapping a reader of the storage file gets now.
Stored == LoadMessages(fs).messages

(***************************************************************************)
(* C1 as stated: in every reachable state get(id) returns absent for every *)
(* entry whose age now - timestamp exceeds the age threshold.              *)
(***************************************************************************)
C1_AgedEntryAbsentFromGet ==
    \A id \in StoreIds :
        LET v == GetMessage(fs, id).value
        IN  v # Null => now - v.timestamp <= MAX_STORAGE_AGE_MS

(***************************************************************************)
(* C1 as amended: eviction by age happens in put only.  Whatever get(id)   *)
(* returns was at most the age threshold old at the time of the last put,  *)
(* whatever the number of entries; an entry that grows older than the      *)
(* threshold after the last put is still returned.                         *)
(***************************************************************************)
C1_AgedEntryEvictedByPut ==
    \A id \in StoreIds :
        LET v == GetMessage(fs, id).value
        IN  v # Null => lastPutTime - v.timestamp <= MAX_STORAGE_AGE_MS

\* An observed entry was older than the threshold at a later put, the store
\* is below its size cap, and get no longer returns the entry.
C1_Witness ==
    /\ tracked.on
    /\ lastPutTime - tracked.time > MAX_STORAGE_AGE_MS
    /\ Len(Stored) < MAX_STORAGE_SIZE
    /\ GetMessage(fs, tracked.id).value = Null

(***************************************************************************)
(* C2: size eviction.  The mapping never holds more than MAX_STORAGE_SIZE  *)
(* entries and, for an id inserted inside the age window, the id is still  *)
(* present exactly when fewer than MAX_STORAGE_SIZE distinct ids were      *)
(* inserted after it (the least recently inserted id is the one dropped),  *)
(* the mapping being full from the MAX_STORAGE_SIZE-th such id on.         *)
(***************************************************************************)
C2_SizeEviction ==
    /\ Len(Stored) <= MAX_STORAGE_SIZE
    /\ (tracked.on /\ now - tracked.inserted <= MAX_STORAGE_AGE_MS)
         => /\ ObjHas(Stored, tracked.id)
                  <=> Cardinality(tracked.others) < MAX_STORAGE_SIZE
            /\ Cardinality(tracked.others) >= MAX_STORAGE_SIZE - 1
                  => Len(Stored) = MAX_STORAGE_SIZE

(***************************************************************************)
(* C3: round trip.  After a put of (id, record) at time t, while the entry *)
(* is inside the age window and fewer than MAX_STORAGE_SIZE distinct ids   *)
(* were inserted after it, get(id) returns the record with timestamp t,    *)
(* also when the process restarted and ran initStorage in between.         *)
(***************************************************************************)
C3_RoundTrip ==
    (/\ tracked.on
     /\ now - tracked.time <= MAX_STORAGE_AGE_MS
     /\ Cardinality(tracked.others) < MAX_STORAGE_SIZE)
        => GetMessage(fs, tracked.id).value
               = [tracked.rec EXCEPT !.timestamp = tracked.time]

(***************************************************************************)
(* SpecFS: the store operations interleaved.  Each operation is a chain of *)
(* awaited file operations; another operation, or a reader of the storage  *)
(* file, may run between any two of them.  fs.writeFile takes two steps:   *)
(* the open that creates or truncates the file, and the write.             *)
(***************************************************************************)
FsIds == {"a", "b"}

InitFS ==
    /\ fs \in {DiskWith(c) : c \in {ENOENT, Garbage, Doc(NoMessages)}}
    /\ now = TickMs
    /\ tracked = NoTrack
    /\ lastPutTime = 0
    /\ procs = [p \in Procs |->
                   IF p = Boot THEN [Idle EXCEPT !.pc = "i_access", !.op = "init"]
                   ELSE Idle]
    /\ observed = NotRead
    /\ mjInitialized = FALSE
    /\ h = <<>>
    /\ trace = <<>>

\* initStorage: fs.access(STORAGE_FILE)
InitAccess ==
    /\ procs[Boot].pc = "i_access"
    /\ procs' = [procs EXCEPT ![Boot].pc =
                    IF fs.dir[STORAGE_FILE] = 0 THEN "i_open" ELSE "i_read"]
    /\ UNCHANGED <<fs, observed, notFiles>>

\* initStorage: fs.readFile and the check of what it read
InitRead ==
    /\ procs[Boot].pc = "i_read"
    /\ procs' = [procs EXCEPT ![Boot].pc =
                    IF StorageIsValid(ReadFile(fs, STORAGE_FILE)) THEN "done"
                    ELSE "i_open"]
    /\ UNCHANGED <<fs, observed, notFiles>>

\* initStorage: fs.writeFile(STORAGE_FILE, ...), the open
InitOpen ==
    /\ procs[Boot].pc = "i_open"
    /\ LET o == OpenTrunc(fs, STORAGE_FILE)
       IN  /\ fs' = o.fs
           /\ procs' = [procs EXCEPT ![Boot].pc = "i_write", ![Boot].fd = o.fd]
    /\ UNCHANGED <<observed, notFiles>>

\* initStorage: fs.writeFile(STORAGE_FILE, ...), the write
InitWrite ==
    /\ procs[Boot].pc = "i_write"
    /\ fs' = CloseFd(WriteFd(fs, procs[Boot].fd, Doc(NoMessages)), procs[Boot].fd)
    /\ procs' = [procs EXCEPT ![Boot].pc = "done", ![Boot].fd = 0]
    /\ UNCHANGED <<observed, notFiles>>

\* A request starts saveMessage(id, record) or getMessage(id).
StartSave(p, id) ==
    /\ procs[p].pc = "idle"
    /\ procs' = [procs EXCEPT ![p] = [Idle EXCEPT !.pc = "load", !.op = "save", !.id = id]]
    /\ UNCHANGED <<fs, observed, notFiles>>

StartGet(p, id) ==
    /\ procs[p].pc = "idle"
    /\ procs' = [procs EXCEPT ![p] = [Idle EXCEPT !.pc = "load", !.op = "get", !.id = id]]
    /\ UNCHANGED <<fs, observed, notFiles>>

\* The operation of p once its loadMessages has returned the mapping m:
\* saveMessage computes the mapping to write, getMessage returns.
Loaded(q, m) ==
    IF q.op = "save"
    THEN [q EXCEPT !.pc = "t_open", !.fd = 0,
                   !.messages = Updated(m, q.id, StoreRecord(q.id), now)]
    ELSE [q EXCEPT !.pc = "done", !.fd = 0, !.value = Lookup(m, q.id)]

\* loadMessages: fs.readFile and what follows from the content
Load(p) ==
    /\ procs[p].pc = "load"
    /\ LET c == ReadFile(fs, STORAGE_FILE)
       IN  procs' = [procs EXCEPT ![p] =
               CASE LoadOutcome(c) = "parsed" -> Loaded(procs[p], JSONParse(c))
                 [] LoadOutcome(c) = "blank" -> Loaded(procs[p], NoMessages)
                 [] OTHER -> [procs[p] EXCEPT !.pc = "r_open"]]
    /\ UNCHANGED <<fs, observed, notFiles>>

\* loadMessages' reset: fs.writeFile(STORAGE_FILE, ...), the open
ResetOpen(p) ==
    /\ procs[p].pc = "r_open"
    /\ LET o == OpenTrunc(fs, STORAGE_FILE)
       IN  /\ fs' = o.fs
           /\ procs' = [procs EXCEPT ![p].pc = "r_write", ![p].fd = o.fd]
    /\ UNCHANGED <<observed, notFiles>>

\* loadMessages' reset: the write, after which loadMessages returns {}
ResetWrite(p) ==
    /\ procs[p].pc = "r_write"
    /\ fs' = CloseFd(WriteFd(fs, procs[p].fd, Doc(NoMessages)), procs[p].fd)
    /\ procs' = [procs EXCEPT ![p] = Loaded(procs[p], NoMessages)]
    /\ UNCHANGED <<observed, notFiles>>

\* saveMessage: fs.writeFile(tempFile, ...), the open
TmpOpen(p) ==
    /\ procs[p].pc = "t_open"
    /\ LET o == OpenTrunc(fs, tempFile)
       IN  /\ fs' = o.fs
           /\ procs' = [procs EXCEPT ![p].pc = "t_write", ![p].fd = o.fd]
    /\ UNCHANGED <<observed, notFiles>>

\* saveMessage: fs.writeFile(tempFile, ...), the write
TmpWrite(p) ==
    /\ procs[p].pc = "t_write"
    /\ fs' = CloseFd(WriteFd(fs, procs[p].fd, Doc(procs[p].messages)), procs[p].fd)
    /\ procs' = [procs EXCEPT ![p].pc = "rename", ![p].fd = 0]
    /\ UNCHANGED <<observed, notFiles>>

\* saveMessage: fs.rename(tempFile, STORAGE_FILE); a failure is rethrown
RenameStep(p) ==
    /\ procs[p].pc = "rename"
    /\ LET r == Rename(fs, tempFile, STORAGE_FILE)
       IN  /\ fs' = r.fs
           /\ procs' = [procs EXCEPT ![p].pc = "done", ![p].err = r.err]
    /\ UNCHANGED <<observed, notFiles>>

\* A reader reads the storage file.  The read is torn when the file has been
\* truncated by a write that has not written yet.
ReaderRead ==
    /\ observed' =
          LET i == fs.dir[STORAGE_FILE]
              c == ReadFile(fs, STORAGE_FILE)
          IN  [read |-> TRUE,
               torn |-> i # 0 /\ fs.refs[i] > 0 /\ c.kind = "empty",
               kind |-> c.kind]
    /\ UNCHANGED <<fs, procs, notFiles>>

NextFS ==
    \/ InitAccess
    \/ InitRead
    \/ InitOpen
    \/ InitWrite
    \/ \E p \in Workers, id \in FsIds : StartSave(p, id)
    \/ \E p \in Workers, id \in FsIds : StartGet(p, id)
    \/ \E p \in Workers : Load(p)
    \/ \E p \in Workers : ResetOpen(p)
    \/ \E p \in Workers : ResetWrite(p)
    \/ \E p \in Workers : TmpOpen(p)
    \/ \E p \in Workers : TmpWrite(p)
    \/ \E p \in Workers : RenameStep(p)
    \/ ReaderRead

SpecFS == InitFS /\ [][NextFS]_vars

(***************************************************************************)
(* C4: atomic persistence.  Every read of the storage file observes a      *)
(* complete mapping, the result of a finished write: never a file that a   *)
(* write has truncated and not yet written.                                *)
(***************************************************************************)
C4_ReadsSeeCompleteMapping == observed.read => ~observed.torn

(***************************************************************************)
(* Values of a JSON request body.  A value is undefined (the field is      *)
(* missing), a number n + d/10, or a string s; for a string, nan and n     *)
(* give what parseInt makes of it.                                         *)
(***************************************************************************)
Undefined == [t |-> "undefined", n |-> 0, d |-> 0, s |-> "", nan |-> TRUE]
Num(n) == [t |-> "number", n |-> n, d |-> 0, s |-> "", nan |-> FALSE]
JsNull == [t |-> "null", n |-> 0, d |-> 0, s |-> "", nan |-> TRUE]
\* the number n + d/10, n >= 0
Frac(n, d) == [t |-> "number", n |-> n, d |-> d, s |-> "", nan |-> FALSE]
\* the string s, which parseInt reads as n
NumStr(s, n) == [t |-> "string", n |-> n, d |-> 0, s |-> s, nan |-> FALSE]
\* the string s, in which parseInt finds no number
Str(s) == [t |-> "string", n |-> 0, d |-> 0, s |-> s, nan |-> TRUE]

\* JavaScript's truthiness of a body value
Truthy(v) ==
    CASE v.t \in {"undefined", "null"} -> FALSE
      [] v.t = "number" -> v.n # 0 \/ v.d # 0
      [] OTHER -> v.s # ""

\* parseInt(v): [nan, n]
ParseInt(v) ==
    CASE v.t \in {"undefined", "null"} -> [nan |-> TRUE, n |-> 0]
      [] v.t = "number" -> [nan |-> FALSE, n |-> v.n]
      [] OTHER -> [nan |-> v.nan, n |-> v.n]

\* x || dflt for x a parseInt result
OrDefault(x, dflt) == IF x.nan \/ x.n = 0 THEN dflt ELSE x.n

Max(a, b) == IF a >= b THEN a ELSE b
Min(a, b) == IF a <= b THEN a ELSE b

(***************************************************************************)
(* Program constants.                                                      *)
(***************************************************************************)
maxRetries == 3
baseDelay == 3000
SafeCallRetries == 2
SafeCallDelay == 3000
MinPacingMs == 10000
MaxPacingMs == 15000
RandomSpanMs == 5000

\* Math.floor(Math.random() * 5000): samples of 0..4999
RandomDraws == {0, RandomSpanMs - 1}

(***************************************************************************)
(* Job records and what the external client answers.                       *)
(***************************************************************************)
Opt(owner, label) == [label |-> label, custom |-> owner \o ":" \o label]

OriginalMessage ==
    Message("orig", 1, TRUE, <<Opt("orig", "V1"), Opt("orig", "U1"), Opt("orig", "V3")>>,
            "orig.png", "", TickMs)
\* a stored record with no options field
BareMessage == Message("bare", 3, FALSE, <<>>, "bare.png", "", TickMs)

VariationMessage(hasOptions, labels) ==
    Message("var", 2, hasOptions, [i \in 1..Len(labels) |-> Opt("var", labels[i])],
            "var.png", "", 0)
\* What mj.Custom may return for the variation, and for an upscale.
VariationResults ==
    {Null, VariationMessage(FALSE, <<>>)}
        \cup {VariationMessage(TRUE, l) : l \in {<<"U1", "U2">>, <<"U2">>, <<"U1">>, <<>>}}
UpscaleMessage(uri, attachment) == Message("up", 4, FALSE, <<>>, uri, attachment, 0)
UpscaleResults ==
    {Null, UpscaleMessage("up.png", ""), UpscaleMessage("", "att.png"),
     UpscaleMessage("", "")}

\* The error the external client raises at the n-th call made to it.
ErrorOfCall(n) == "error-" \o ToString(n)

(***************************************************************************)
(* A request being handled, and the log of what the program did.           *)
(***************************************************************************)
NoParams == [msgId |-> "", flags |-> 0, customId |-> ""]
NoResp == [status |-> 0, tag |-> "", error |-> "", messageId |-> "", imageUrl |-> "",
           labels |-> <<>>, upscaled |-> <<>>, generatedCount |-> 0, note |-> ""]
NoBody == [keyword |-> "", count |-> Undefined, originalMessageId |-> "",
           variationNumber |-> Undefined, delayBetweenUpscales |-> Undefined]
NewRequest(kind, body) ==
    [pc |-> "start", kind |-> kind, body |-> body, retryCount |-> 0, attempt |-> 0,
     ctx |-> "", params |-> NoParams, variation |-> Null, idx |-> 0,
     results |-> <<>>, resp |-> NoResp]

\* A log entry: what happened (ev), for which request (r) and which call of
\* the request (ctx), the attempt number n, the outcome, the delay waited,
\* the parameters passed, the error raised and the value returned.
Event(ev, r, ctx) ==
    [ev |-> ev, r |-> r, ctx |-> ctx, n |-> 0, out |-> "", ms |-> 0,
     params |-> NoParams, err |-> "", val |-> Null]

\* the number of calls made to the external client so far
CallsMade == Len(SelectSeq(trace, LAMBDA e : e.ev \in {"custom", "imagine"}))

\* res.status(status).json(...): the handler returns.
Respond(q, resp) == [q EXCEPT !.pc = "done", !.resp = resp]
ErrorResponse(status, error) == [NoResp EXCEPT !.status = status, !.error = error]

(***************************************************************************)
(* initializeMidjourney.                                                   *)
(***************************************************************************)
\* What a handler does when initializeMidjourney throws: its outer catch.
OuterCatch(q, message) ==
    CASE q.kind = "generate" -> Respond(q, ErrorResponse(500, "Internal server error"))
      [] q.kind = "reinit" -> [q EXCEPT !.pc = "done"]
      [] OTHER -> Respond(q, ErrorResponse(500, message))

\* An ensure-ready that lets the request through without a connection.
EnsureReadySkipped(r) ==
    /\ h[r].pc = "start"
    /\ h' = [h EXCEPT ![r].pc = "validate"]
    /\ UNCHANGED <<fs, mjInitialized, trace, notHandlers>>

\* await initializeMidjourney(): returns at once when the flag is set
EnsureReady(r) ==
    /\ h[r].pc = "start"
    /\ h' = [h EXCEPT ![r] = IF mjInitialized THEN [@ EXCEPT !.pc = "validate"]
                             ELSE [@ EXCEPT !.pc = "connect", !.retryCount = 0]]
    /\ UNCHANGED <<fs, mjInitialized, trace, notHandlers>>

\* A delay that does not grow with the attempts made.
ConnectDelayFlat(retryCount) == baseDelay

\* The delay before the next connection attempt.
ConnectDelay(retryCount) == baseDelay * retryCount

\* Whether a failed connection attempt is retried.
ConnectRetries(code, retryCount) == code = "ENOTFOUND" /\ retryCount < maxRetries

\* the log entry of a connection attempt of request r
InitEvent(r, code) == [Event("init", r, "") EXCEPT !.n = h[r].retryCount + 1, !.out = code]

\* await mj.init() and its outcome: success, or an error with the given code
Connect(r, code) ==
    /\ h[r].pc = "connect"
    /\ h[r].retryCount < maxRetries
    /\ LET n == h[r].retryCount + 1
       IN  CASE code = "ok" ->
                  /\ mjInitialized' = TRUE
                  /\ h' = [h EXCEPT ![r].pc = IF @ = "connect" /\ h[r].kind = "reinit"
                                              THEN "done" ELSE "validate"]
                  /\ trace' = Append(trace, InitEvent(r, code))
             [] code # "ok" /\ ConnectRetries(code, n) ->
                  /\ h' = [h EXCEPT ![r].retryCount = n, ![r].pc = "connectWait"]
                  /\ trace' = trace \o <<InitEvent(r, code),
                         [Event("initWait", r, "") EXCEPT !.n = n, !.ms = ConnectDelay(n)]>>
                  /\ UNCHANGED mjInitialized
             [] OTHER ->
                  /\ h' = [h EXCEPT ![r] = OuterCatch([@ EXCEPT !.retryCount = n], code)]
                  /\ trace' = Append(trace, InitEvent(r, code))
                  /\ UNCHANGED mjInitialized
    /\ UNCHANGED <<fs, notHandlers>>

\* the delay is over: the loop tries again
ConnectWaitDone(r) ==
    /\ h[r].pc = "connectWait"
    /\ h' = [h EXCEPT ![r].pc = "connect"]
    /\ UNCHANGED <<fs, mjInitialized, trace, notHandlers>>

(***************************************************************************)
(* safeCall and POST /generate-upscale-from-variation.                     *)
(***************************************************************************)
upscaleLabels == <<"U1", "U2">>

\* `V${variationNumber}` for the numbers that pass the validation
VariationLabel(v) ==
    CASE v.d # 0 -> "V" \o ToString(v.n) \o "." \o ToString(v.d)
      [] OTHER -> "V" \o ToString(v.n)

\* parseInt(label.substring(1))
UpscaleNumber(label) == CASE label = "U1" -> 1 [] label = "U2" -> 2 [] OTHER -> 0

\* options.find(o => o.label === label): the index of the first match, or 0
FindOption(options, label) ==
    IF \E i \in 1..Len(options) : options[i].label = label
    THEN CHOOSE i \in 1..Len(options) :
             /\ options[i].label = label
             /\ \A j \in 1..(i - 1) : options[j].label # label
    ELSE 0

OptionLabels(options) == [i \in 1..Len(options) |-> options[i].label]

\* !originalMessageId || variationNumber === undefined || variationNumber < 1
\*     || variationNumber > 4
UpscaleBodyInvalid(body) ==
    \/ body.originalMessageId = ""
    \/ body.variationNumber.t = "undefined"
    \/ body.variationNumber.n < 1
    \/ body.variationNumber.n > 4
    \/ (body.variationNumber.n = 4 /\ body.variationNumber.d > 0)

ValidateUpscale(r) ==
    /\ h[r].pc = "validate"
    /\ h[r].kind = "upscale"
    /\ h' = [h EXCEPT ![r] =
               IF UpscaleBodyInvalid(@.body)
               THEN Respond(@, ErrorResponse(400,
                        "Both originalMessageId and variationNumber (1-4) are required"))
               ELSE [@ EXCEPT !.pc = "lookup"]]
    /\ UNCHANGED <<fs, mjInitialized, trace, notHandlers>>

\* getMessage(originalMessageId), the two 404 checks and the call parameters
LookupOriginal(r) ==
    /\ h[r].pc = "lookup"
    /\ \E g \in {GetMessage(fs, h[r].body.originalMessageId)} :
       LET originalMessage == g.value
           variationLabel == VariationLabel(h[r].body.variationNumber)
           i == FindOption(originalMessage.options, variationLabel)
       IN  /\ fs' = g.fs
           /\ h' = [h EXCEPT ![r] =
                CASE originalMessage = Null \/ ~originalMessage.hasOptions ->
                       Respond(@, ErrorResponse(404,
                           "Original message not found or has no options"))
                  [] originalMessage # Null /\ originalMessage.hasOptions /\ i = 0 ->
                       Respond(@, [ErrorResponse(404, "Variation not available")
                                      EXCEPT !.labels = OptionLabels(originalMessage.options)])
                  [] OTHER ->
                       [@ EXCEPT !.pc = "call", !.ctx = "V", !.attempt = 0,
                                 !.params = [msgId |-> originalMessage.id,
                                             flags |-> originalMessage.flags,
                                             customId |-> originalMessage.options[i].custom]]]
    /\ UNCHANGED <<mjInitialized, trace, notHandlers>>

\* The response of a request that went through the loop.
Completed(q) ==
    [NoResp EXCEPT !.status = 200, !.tag = "completed",
                   !.messageId = q.variation.id,
                   !.labels = <<VariationLabel(q.body.variationNumber)>>,
                   !.upscaled = q.results,
                   !.note = IF Truthy(q.body.delayBetweenUpscales)
                            THEN "clamped to 10-15s" ELSE "random 10-15s"]

\* The end of one iteration of the loop over upscaleLabels.
NextLabel(q) ==
    IF q.idx < Len(upscaleLabels)
    THEN [q EXCEPT !.pc = "pace", !.idx = @ + 1]
    ELSE Respond(q, Completed(q))

\* upscale.uri || upscale.attachments?.[0]?.url
ImageUrl(m) == IF m.uri # "" THEN m.uri ELSE m.attachment

\* What the handler does with the value v that safeCall returned.
AfterSafeCall(q, v) ==
    IF q.ctx = "V"
    THEN IF v = Null \/ ~v.hasOptions
         THEN Respond(q, ErrorResponse(500, "Failed to create variation"))
         ELSE [q EXCEPT !.pc = "save", !.variation = v]
    ELSE IF v = Null \/ ImageUrl(v) = ""
         THEN NextLabel(q)
         ELSE NextLabel([q EXCEPT !.results = Append(@,
                  [label |-> q.ctx, imageUrl |-> ImageUrl(v),
                   upscaleNumber |-> UpscaleNumber(q.ctx)])])

\* A handler that skips a call that failed after its retries.
AfterSafeCallThrowsSkips(q, message) == NextLabel(q)

\* What the handler does when safeCall throws: nothing but the outer catch
\* of the handler catches it.
AfterSafeCallThrows(q, message) == OuterCatch(q, message)

\* A safeCall that makes one attempt more.
SafeCallGivesUpLate(attempt) == attempt = SafeCallRetries + 1

\* A safeCall that gives up one attempt early.
SafeCallGivesUpEarly(attempt) == attempt = SafeCallRetries - 1

\* if (attempt === retries) throw err
SafeCallGivesUp(attempt) == attempt = SafeCallRetries

\* What mj.Custom may return to the call ctx.
CustomResults(ctx) == IF ctx = "V" THEN VariationResults ELSE UpscaleResults

CustomEvent(r, out) ==
    [Event("custom", r, h[r].ctx) EXCEPT !.n = h[r].attempt, !.out = out,
                                         !.params = h[r].params]

\* safeCall: mj.Custom(params) returns v
CustomReturns(r, v) ==
    /\ h[r].pc = "call"
    /\ h' = [h EXCEPT ![r] = AfterSafeCall(@, v)]
    /\ trace' = trace \o <<[CustomEvent(r, "return") EXCEPT !.val = v],
                           [Event("safeCall", r, h[r].ctx) EXCEPT
                                !.out = "returned", !.val = v]>>
    /\ UNCHANGED <<fs, mjInitialized, notHandlers>>

\* safeCall: mj.Custom(params) raises; the last attempt's error is rethrown,
\* an earlier one is followed by the delay
CustomRaises(r) ==
    /\ h[r].pc = "call"
    /\ LET err == ErrorOfCall(CallsMade + 1)
           raised == [CustomEvent(r, "raise") EXCEPT !.err = err]
       IN  IF SafeCallGivesUp(h[r].attempt)
           THEN /\ h' = [h EXCEPT ![r] = AfterSafeCallThrows(@, err)]
                /\ trace' = trace \o <<raised,
                       [Event("safeCall", r, h[r].ctx) EXCEPT !.out = "threw", !.err = err]>>
           ELSE /\ h' = [h EXCEPT ![r].pc = "retryWait"]
                /\ trace' = trace \o <<raised,
                       [Event("retryWait", r, h[r].ctx) EXCEPT !.n = h[r].attempt,
                                                               !.ms = SafeCallDelay]>>
    /\ UNCHANGED <<fs, mjInitialized, notHandlers>>

\* the delay is over: attempt++
RetryWaitDone(r) ==
    /\ h[r].pc = "retryWait"
    /\ h' = [h EXCEPT ![r].pc = "call", ![r].attempt = @ + 1]
    /\ UNCHANGED <<fs, mjInitialized, trace, notHandlers>>

\* A handler that goes on without persisting the variation.
SaveVariationSkipped(r) ==
    /\ h[r].pc = "save"
    /\ h' = [h EXCEPT ![r] = [@ EXCEPT !.pc = "pace", !.idx = 1]]
    /\ UNCHANGED <<fs, trace, mjInitialized, notHandlers>>

\* await saveMessage(variationMessage.id, variationMessage)
SaveVariation(r) ==
    /\ h[r].pc = "save"
    /\ \E w \in {SaveMessage(fs, h[r].variation.id, h[r].variation, now)} :
           /\ fs' = w.fs
           /\ h' = [h EXCEPT ![r] =
                       IF w.err THEN OuterCatch(@, "ENOENT")
                       ELSE [@ EXCEPT !.pc = "pace", !.idx = 1]]
           /\ trace' = Append(trace, [Event("put", r, "") EXCEPT
                                          !.out = IF w.err THEN "failed" ELSE "ok",
                                          !.val = h[r].variation])
    /\ UNCHANGED <<mjInitialized, notHandlers>>

\* A pacing delay without its lower clamp.
PacingDelayUnclamped(d, rnd) ==
    IF Truthy(d)
    THEN Min(OrDefault(ParseInt(d), MinPacingMs), MaxPacingMs)
    ELSE rnd + MinPacingMs

\* delayBetweenUpscales
\*   ? Math.max(10000, Math.min(parseInt(delayBetweenUpscales) || 10000, 15000))
\*   : Math.floor(Math.random() * 5000) + 10000
PacingDelay(d, rnd) ==
    IF Truthy(d)
    THEN Max(MinPacingMs, Min(OrDefault(ParseInt(d), MinPacingMs), MaxPacingMs))
    ELSE rnd + MinPacingMs

\* One iteration of the loop up to its safeCall: the delay, then the option
\* of the variation labelled with the current label.
Pace(r, rnd) ==
    /\ h[r].pc = "pace"
    /\ LET label == upscaleLabels[h[r].idx]
           delayMs == PacingDelay(h[r].body.delayBetweenUpscales, rnd)
           i == FindOption(h[r].variation.options, label)
       IN  /\ trace' = Append(trace, [Event("pace", r, label) EXCEPT !.ms = delayMs])
           /\ h' = [h EXCEPT ![r] =
                       IF i = 0 THEN NextLabel(@)
                       ELSE [@ EXCEPT !.pc = "call", !.ctx = label, !.attempt = 0,
                                      !.params = [msgId |-> h[r].variation.id,
                                                  flags |-> h[r].variation.flags,
                                                  customId |-> h[r].variation.options[i].custom]]]
    /\ UNCHANGED <<fs, mjInitialized, notHandlers>>

\* The draws of Math.random the iteration can see.
DrawsFor(r) ==
    IF Truthy(h[r].body.delayBetweenUpscales) THEN {0} ELSE RandomDraws

(***************************************************************************)
(* SpecUpscale: one POST /generate-upscale-from-variation request, for     *)
(* every body, session state and behaviour of the external client.         *)
(***************************************************************************)
Requests == {"q1"}
ConnectCodes == {"ok", "ENOTFOUND", "EOTHER"}

DelayInputs ==
    {Undefined, Num(0), Num(-1), Num(5000), Num(12000), Num(15000), Num(20000),
     Str("abc"), NumStr("20000", 20000)}
UpscaleBodies ==
    {[NoBody EXCEPT !.originalMessageId = id, !.variationNumber = v,
                    !.delayBetweenUpscales = d] :
        id \in {"", "orig", "bare", "gone"},
        v \in {Undefined, Num(0), Num(1), Num(2), Num(5)},
        d \in DelayInputs}

InitUpscale ==
    /\ fs = DiskWith(Doc(<<[key |-> "orig", val |-> OriginalMessage],
                           [key |-> "bare", val |-> BareMessage]>>))
    /\ now = TickMs
    /\ tracked = NoTrack
    /\ lastPutTime = 0
    /\ procs = [p \in Procs |-> Idle]
    /\ observed = NotRead
    /\ mjInitialized \in BOOLEAN
    /\ \E body \in UpscaleBodies : h = [r \in Requests |-> NewRequest("upscale", body)]
    /\ trace = <<>>

NextUpscale ==
    \E r \in Requests :
        \/ EnsureReady(r)
        \/ \E code \in ConnectCodes : Connect(r, code)
        \/ ConnectWaitDone(r)
        \/ ValidateUpscale(r)
        \/ LookupOriginal(r)
        \/ \E v \in CustomResults(h[r].ctx) : CustomReturns(r, v)
        \/ CustomRaises(r)
        \/ RetryWaitDone(r)
        \/ SaveVariation(r)
        \/ \E rnd \in DrawsFor(r) : Pace(r, rnd)

SpecUpscale == InitUpscale /\ [][NextUpscale]_vars

(***************************************************************************)
(* Claims about safeCall and the upscale pipeline.                         *)
(***************************************************************************)
\* The log of one safeCall invocation: call c of request r.
CallLog(r, c) ==
    SelectSeq(trace, LAMBDA e : e.r = r /\ e.ctx = c
                                 /\ e.ev \in {"custom", "retryWait", "safeCall"})
\* The number of attempts among the first i entries of a call log.
AttemptsUpTo(A, i) == Cardinality({j \in 1..i : A[j].ev = "custom"})
PipelineCalls == {"V", "U1", "U2"}

\* C5: a safeCall invocation makes at most 3 attempts, numbered 0, 1, 2; it
\* returns the result of the first attempt that does not raise and makes no
\* attempt after it; it waits 3000 ms after every failed attempt but the
\* third, and only then; after a third failure it waits no more and raises
\* the error of that third attempt.
C5_SafeCallOutcome ==
    \A r \in Requests, c \in PipelineCalls :
        LET A == CallLog(r, c)
        IN  /\ AttemptsUpTo(A, Len(A)) <= 3
            /\ \A i \in 1..Len(A) :
                 /\ A[i].ev = "custom" =>
                      /\ A[i].n = AttemptsUpTo(A, i) - 1
                      /\ i < Len(A)
                 /\ A[i].ev = "custom" /\ A[i].out = "return" =>
                      /\ i + 1 = Len(A)
                      /\ A[i + 1].ev = "safeCall"
                      /\ A[i + 1].out = "returned"
                      /\ A[i + 1].val = A[i].val
                 /\ A[i].ev = "custom" /\ A[i].out = "raise" /\ AttemptsUpTo(A, i) < 3 =>
                      /\ A[i + 1].ev = "retryWait"
                      /\ A[i + 1].ms = 3000
                      /\ i + 1 < Len(A) => A[i + 2].ev = "custom"
                 /\ A[i].ev = "custom" /\ A[i].out = "raise" /\ AttemptsUpTo(A, i) = 3 =>
                      /\ i + 1 = Len(A)
                      /\ A[i + 1].ev = "safeCall"
                      /\ A[i + 1].out = "threw"
                      /\ A[i + 1].err = A[i].err
                 /\ A[i].ev = "retryWait" =>
                      /\ i > 1
                      /\ A[i - 1].ev = "custom"
                      /\ A[i - 1].out = "raise"
                 /\ A[i].ev = "safeCall" => i = Len(A)

\* One request where the variation call failed twice and then returned a
\* record, and the first upscale call failed three times.
C5_Witness ==
    \E r \in Requests :
        LET A == CallLog(r, "V")
            B == CallLog(r, "U1")
        IN  /\ Len(A) = 6
            /\ A[1].out = "raise" /\ A[3].out = "raise"
            /\ A[5].out = "return" /\ A[5].val # Null
            /\ A[6].out = "returned" /\ A[6].val = A[5].val
            /\ Len(B) = 6
            /\ B[5].out = "raise"
            /\ B[6].out = "threw" /\ B[6].err = B[5].err

\* The variation record of request r was persisted.
VariationPersisted(r) ==
    \E i \in 1..Len(trace) :
        trace[i].ev = "put" /\ trace[i].r = r /\ trace[i].out = "ok"
\* The labels of the options of the variation of request r.
VariationOffers(r, label) == FindOption(h[r].variation.options, label) # 0
\* safeCall returned a record with an image URL for the label.
UpscaleSucceeded(r, label) ==
    \E i \in 1..Len(trace) :
        /\ trace[i].ev = "safeCall" /\ trace[i].r = r /\ trace[i].ctx = label
        /\ trace[i].out = "returned"
        /\ trace[i].val # Null
        /\ ImageUrl(trace[i].val) # ""
Listed(r, label) ==
    \E i \in 1..Len(h[r].resp.upscaled) : h[r].resp.upscaled[i].label = label

\* C6: once the variation record is persisted, the request ends with the
\* completed (200) response, whatever happens to the upscale calls, and the
\* response lists exactly the upscales that succeeded.
C6_PartialFailureCompletes ==
    \A r \in Requests :
        VariationPersisted(r) /\ h[r].pc = "done" =>
            /\ h[r].resp.status = 200
            /\ h[r].resp.tag = "completed"
            /\ \A label \in {"U1", "U2"} : Listed(r, label) <=> UpscaleSucceeded(r, label)

\* C7: when the persisted variation offers no option for an upscale label,
\* that label is skipped without a call, the other label is still processed
\* and the request ends with success, never with an error.
C7_MissingLabelSkipped ==
    \A r \in Requests : \A label \in {"U1", "U2"} :
        VariationPersisted(r) /\ ~VariationOffers(r, label) =>
            /\ CallLog(r, label) = <<>>
            /\ h[r].pc = "done" =>
                 /\ h[r].resp.status = 200
                 /\ h[r].resp.tag = "completed"
                 /\ ~Listed(r, label)
                 /\ \A other \in {"U1", "U2"} \ {label} :
                      /\ \E i \in 1..Len(trace) :
                             trace[i].ev = "pace" /\ trace[i].ctx = other
                      /\ Listed(r, other) <=> UpscaleSucceeded(r, other)

\* C10: the delay before every upscale is within [10000, 15000] ms; a
\* configured numeric value is clamped into that range, so that 5000 gives
\* exactly 10000 ms; without a configured value the delay is a draw from
\* the range.
C10_PacingDelayClamped ==
    \A i \in 1..Len(trace) :
        trace[i].ev = "pace" =>
            LET d == h[trace[i].r].body.delayBetweenUpscales
                ms == trace[i].ms
            IN  /\ 10000 <= ms /\ ms <= 15000
                /\ d.t = "number" /\ d.n # 0 =>
                     ms = (IF d.n < 10000 THEN 10000
                           ELSE IF d.n > 15000 THEN 15000 ELSE d.n)
                /\ d = Num(5000) => ms = 10000

\* A completed request configured with 5000 ms that paced twice.
C10_Witness ==
    \E r \in Requests :
        /\ h[r].body.delayBetweenUpscales = Num(5000)
        /\ h[r].pc = "done" /\ h[r].resp.tag = "completed"
        /\ Len(SelectSeq(trace, LAMBDA e : e.ev = "pace" /\ e.ms = 10000)) = 2

\* The record stored under the id when the request arrives.
OriginalAtArrival(id) ==
    CASE id = OriginalMessage.id -> OriginalMessage
      [] id = BareMessage.id -> BareMessage
      [] OTHER -> Null
\* The request passed ensure-ready and the validation of its body.
ReachedLookup(r) ==
    /\ mjInitialized
    /\ h[r].body.originalMessageId # ""
    /\ h[r].body.variationNumber.t = "number"
    /\ h[r].body.variationNumber.n >= 1 /\ h[r].body.variationNumber.n <= 4
\* No put, no pacing delay and no upscale call was made for request r.
NothingAfterStep3(r) ==
    \A i \in 1..Len(trace) :
        trace[i].r = r =>
            /\ trace[i].ev \notin {"put", "pace"}
            /\ trace[i].ev = "custom" => trace[i].ctx = "V"
\* The variation call of request r raised after its retries, or returned a
\* result without options.
VariationFailed(r) ==
    \E i \in 1..Len(trace) :
        /\ trace[i].ev = "safeCall" /\ trace[i].r = r /\ trace[i].ctx = "V"
        /\ \/ trace[i].out = "threw"
           \/ trace[i].out = "returned" /\ (trace[i].val = Null \/ ~trace[i].val.hasOptions)

\* C11: a request whose original id is unknown, has no options or lacks the
\* requested variation label ends with 404 and no action call; a request
\* whose variation call raises after retries or returns no options ends
\* with 500; in all these cases there is no put, no pacing delay and no
\* upscale call.
C11_FatalSteps ==
    \A r \in Requests :
        LET original == OriginalAtArrival(h[r].body.originalMessageId)
            label == VariationLabel(h[r].body.variationNumber)
        IN  /\ h[r].pc = "done" /\ ReachedLookup(r)
               /\ (original = Null \/ ~original.hasOptions
                   \/ FindOption(original.options, label) = 0) =>
                    /\ h[r].resp.status = 404
                    /\ NothingAfterStep3(r)
                    /\ CallLog(r, "V") = <<>>
            /\ VariationFailed(r) =>
                    /\ h[r].pc = "done"
                    /\ h[r].resp.status = 500
                    /\ NothingAfterStep3(r)

\* The variation call failed three times and the request ended with 500.
C11_Witness ==
    \E r \in Requests :
        /\ h[r].pc = "done" /\ h[r].resp.status = 500
        /\ Len(CallLog(r, "V")) = 6
        /\ CallLog(r, "V")[6].out = "threw"

(***************************************************************************)
(* POST /generate-images.                                                  *)
(***************************************************************************)
\* !keyword || count === undefined
GenerateBodyIncomplete(body) == body.keyword = "" \/ body.count.t = "undefined"

\* isNaN(position) || position < 1 || position > 10, position = parseInt(count)
CountRejected(count) ==
    LET position == ParseInt(count)
    IN  position.nan \/ position.n < 1 \/ position.n > 10

ValidateGenerate(r) ==
    /\ h[r].pc = "validate"
    /\ h[r].kind = "generate"
    /\ h' = [h EXCEPT ![r] =
               CASE GenerateBodyIncomplete(@.body) ->
                      Respond(@, ErrorResponse(400,
                          "Both keyword and count parameters are required"))
                 [] ~GenerateBodyIncomplete(@.body) /\ CountRejected(@.body.count) ->
                      Respond(@, ErrorResponse(400,
                          "Count must be a number between 1 and 10"))
                 [] OTHER -> [@ EXCEPT !.pc = "imagine"]]
    /\ UNCHANGED <<fs, mjInitialized, trace, notHandlers>>

\* An inner catch that tries the generation again.
InnerCatchRetries(q, message) == [q EXCEPT !.pc = "imagine"]

\* The inner catch of the handler: a structured error with the message.
InnerCatch(q, message) ==
    Respond(q, [ErrorResponse(500, message) EXCEPT !.tag = "failed"])

GeneratedMessage(hasOptions, uri, attachment) ==
    Message("new", 5, hasOptions,
            IF hasOptions THEN <<Opt("new", "V1"), Opt("new", "V2")>> ELSE <<>>,
            uri, attachment, 0)
\* What mj.Imagine may return.
ImagineResults ==
    {Null, GeneratedMessage(TRUE, "new.png", ""), GeneratedMessage(TRUE, "", "att.png"),
     GeneratedMessage(FALSE, "new.png", "")}

\* mj.Imagine(prompt, ...) raises
ImagineRaises(r) ==
    /\ h[r].pc = "imagine"
    /\ LET err == ErrorOfCall(CallsMade + 1)
       IN  /\ h' = [h EXCEPT ![r] = InnerCatch(@, err)]
           /\ trace' = Append(trace, [Event("imagine", r, "") EXCEPT
                                          !.out = "raise", !.err = err])
    /\ UNCHANGED <<fs, mjInitialized, notHandlers>>

\* mj.Imagine(prompt, ...) returns v; no response is an error of its own
ImagineReturns(r, v) ==
    /\ h[r].pc = "imagine"
    /\ h' = [h EXCEPT ![r] =
               IF v = Null
               THEN InnerCatch(@, "MidJourney failed to respond to the imagine request")
               ELSE [@ EXCEPT !.pc = "gsave", !.variation = v]]
    /\ trace' = Append(trace, [Event("imagine", r, "") EXCEPT !.out = "return", !.val = v])
    /\ UNCHANGED <<fs, mjInitialized, notHandlers>>

\* await saveMessage(imagineResponse.id, imagineResponse) and the response
SaveGenerated(r) ==
    /\ h[r].pc = "gsave"
    /\ \E w \in {SaveMessage(fs, h[r].variation.id, h[r].variation, now)} :
       LET imagineResponse == h[r].variation
       IN  /\ fs' = w.fs
           /\ h' = [h EXCEPT ![r] =
                       IF w.err THEN InnerCatch(@, "ENOENT")
                       ELSE Respond(@, [NoResp EXCEPT
                                !.status = 200, !.tag = "success",
                                !.messageId = imagineResponse.id,
                                !.imageUrl = ImageUrl(imagineResponse),
                                !.labels = IF imagineResponse.hasOptions
                                           THEN OptionLabels(imagineResponse.options)
                                           ELSE <<>>,
                                !.generatedCount = 1])]
           /\ trace' = Append(trace, [Event("put", r, "") EXCEPT
                                          !.out = IF w.err THEN "failed" ELSE "ok",
                                          !.val = imagineResponse])
    /\ UNCHANGED <<mjInitialized, notHandlers>>

(***************************************************************************)
(* SpecGenerate: one POST /generate-images request, for every body,        *)
(* session state and behaviour of the external client.                     *)
(***************************************************************************)
CountInputs ==
    {Undefined, JsNull, Num(-2), Num(0), Num(1), Num(5), Num(10), Num(11),
     Frac(0, 5), Frac(10, 5), Str("abc"), NumStr("7", 7)}
GenerateBodies ==
    {[NoBody EXCEPT !.keyword = k, !.count = c] :
        k \in {"", "a red bicycle"}, c \in CountInputs}

InitGenerate ==
    /\ fs = DiskWith(Doc(<<[key |-> "orig", val |-> OriginalMessage]>>))
    /\ now = TickMs
    /\ tracked = NoTrack
    /\ lastPutTime = 0
    /\ procs = [p \in Procs |-> Idle]
    /\ observed = NotRead
    /\ mjInitialized \in BOOLEAN
    /\ \E body \in GenerateBodies : h = [r \in Requests |-> NewRequest("generate", body)]
    /\ trace = <<>>

NextGenerate ==
    \E r \in Requests :
        \/ EnsureReady(r)
        \/ \E code \in ConnectCodes : Connect(r, code)
        \/ ConnectWaitDone(r)
        \/ ValidateGenerate(r)
        \/ ImagineRaises(r)
        \/ \E v \in ImagineResults : ImagineReturns(r, v)
        \/ SaveGenerated(r)

SpecGenerate == InitGenerate /\ [][NextGenerate]_vars

(***************************************************************************)
(* Claims about POST /generate-images.                                     *)
(***************************************************************************)
ImagineCalls(r) == SelectSeq(trace, LAMBDA e : e.ev = "imagine" /\ e.r = r)
Puts(r) == SelectSeq(trace, LAMBDA e : e.ev = "put" /\ e.r = r)
\* count is missing, or a number outside [1, 10]
CountOutOfRange(c) ==
    \/ c.t \in {"undefined", "null"}
    \/ c.t = "number" /\ (c.n < 1 \/ c.n > 10 \/ (c.n = 10 /\ c.d > 0))
\* count is a whole number in [1, 10]
CountInRange(c) == c.t = "number" /\ c.d = 0 /\ 1 <= c.n /\ c.n <= 10

\* C8: a request with an empty keyword or a count that is missing or outside
\* [1, 10] is answered 400, makes no generation call and writes nothing to
\* the store, whatever the session state and the outcome of connecting.
C8_InvalidRequestRejected ==
    \A r \in Requests :
        h[r].kind = "generate"
        /\ (h[r].body.keyword = "" \/ CountOutOfRange(h[r].body.count)) =>
            /\ ImagineCalls(r) = <<>>
            /\ Puts(r) = <<>>
            /\ h[r].pc = "done" => h[r].resp.status = 400

\* C9: a request makes at most one generation call and at most one store
\* put; a request with a keyword and a whole count in [1, 10], served with
\* the session ready, makes exactly one call whatever the count; when the
\* call returns a record it is put once under the returned id and the
\* response reports generatedCount 1; when the call fails there is no second
\* call and no put, and the response is an error carrying the message.
C9_SingleGeneration ==
    \A r \in Requests :
        LET calls == ImagineCalls(r)
            puts == Puts(r)
        IN  /\ Len(calls) <= 1
            /\ Len(puts) <= 1
            /\ h[r].pc = "done" /\ h[r].body.keyword # "" /\ CountInRange(h[r].body.count)
               /\ mjInitialized => Len(calls) = 1
            /\ h[r].pc = "done" /\ Len(calls) = 1 =>
                 IF calls[1].out = "return" /\ calls[1].val # Null
                 THEN /\ Len(puts) = 1
                      /\ puts[1].val = calls[1].val
                      /\ Lookup(Stored, calls[1].val.id) # Null
                      /\ h[r].resp.status = 200
                      /\ h[r].resp.messageId = calls[1].val.id
                      /\ h[r].resp.generatedCount = 1
                 ELSE /\ puts = <<>>
                      /\ h[r].resp.status = 500
                      /\ h[r].resp.tag = "failed"
                      /\ h[r].resp.error =
                            IF calls[1].out = "raise" THEN calls[1].err
                            ELSE "MidJourney failed to respond to the imagine request"

\* A request for 5 images that ended with one call, one put and
\* generatedCount 1.
C9_Witness ==
    \E r \in Requests :
        /\ h[r].pc = "done"
        /\ h[r].body.count = Num(5)
        /\ h[r].resp.status = 200 /\ h[r].resp.generatedCount = 1
        /\ Len(ImagineCalls(r)) = 1 /\ Len(Puts(r)) = 1

\* The log of the ensure-ready call of request r.
ConnectLog(r) ==
    SelectSeq(trace, LAMBDA e : e.r = r /\ e.ev \in {"init", "initWait"})
\* The ensure-ready call of request r failed and the request ended with the
\* error, without any external call.
ConnectFailurePropagated(r) ==
    /\ h[r].pc = "done"
    /\ h[r].resp.status = 500
    /\ ImagineCalls(r) = <<>>

\* C12: an ensure-ready call that starts Uninitialized makes at most 3
\* connection attempts; after a resolution failure that is not the third it
\* waits 3000 ms times the attempts made so far and tries again; the first
\* success makes the session Ready and ends the call; any other failure, and
\* the third resolution failure, end the call with the failure and the
\* session still Uninitialized.
C12_ConnectContract ==
    \A r \in Requests :
        LET A == ConnectLog(r)
        IN  /\ Len(SelectSeq(A, LAMBDA e : e.ev = "init")) <= 3
            /\ \A i \in 1..Len(A) :
                 /\ A[i].ev = "init" =>
                      A[i].n = Len(SelectSeq(SubSeq(A, 1, i), LAMBDA e : e.ev = "init"))
                 /\ A[i].ev = "init" /\ A[i].out = "ok" =>
                      /\ i = Len(A)
                      /\ mjInitialized
                 /\ A[i].ev = "init" /\ A[i].out = "ENOTFOUND" /\ A[i].n < 3 =>
                      /\ i < Len(A)
                      /\ A[i + 1].ev = "initWait"
                      /\ A[i + 1].ms = 3000 * A[i].n
                      /\ i + 1 < Len(A) => A[i + 2].ev = "init"
                 /\ A[i].ev = "init"
                    /\ (A[i].out \notin {"ok", "ENOTFOUND"} \/ A[i].n = 3)
                    /\ A[i].out # "ok" =>
                      /\ i = Len(A)
                      /\ ~mjInitialized
                      /\ ConnectFailurePropagated(r)
                 /\ A[i].ev = "initWait" =>
                      /\ i > 1
                      /\ A[i - 1].ev = "init"
                      /\ A[i - 1].out = "ENOTFOUND"

\* Two resolution failures, waits of 3000 and 6000 ms, then a success.
C12_Witness ==
    \E r \in Requests :
        LET A == ConnectLog(r)
        IN  /\ Len(A) = 5
            /\ A[1].out = "ENOTFOUND" /\ A[2].ms = 3000
            /\ A[3].out = "ENOTFOUND" /\ A[4].ms = 6000
            /\ A[5].out = "ok"
            /\ mjInitialized

(***************************************************************************)
(* The session: concurrent requests and the uncaughtException handler.     *)
(***************************************************************************)
GatewayHost == "gateway.discord.gg"
Hosts == {GatewayHost, "cdn.example"}
FaultCodes == {"ENOTFOUND", "EOTHER"}
SessionRequests == {"q1", "q2"}
Reinits == {"re1"}
SessionProcs == SessionRequests \cup Reinits

\* The call of initializeMidjourney the handler makes, before it is made.
NoReinit == [NewRequest("reinit", NoBody) EXCEPT !.pc = "idle"]

ConnectFailures ==
    Len(SelectSeq(trace, LAMBDA e : e.ev = "init" /\ e.out # "ok"))

\* A test that ignores the host.
IsAnyResolutionFailure(code, hostname) == code = "ENOTFOUND"

\* error.code === 'ENOTFOUND' && error.hostname === 'gateway.discord.gg'
IsGatewayFailure(code, hostname) == code = "ENOTFOUND" /\ hostname = GatewayHost

\* process.on('uncaughtException', ...): the reset of the flag and the call
\* of initializeMidjourney, which finds the flag unset and calls mj.init();
\* or process.exit(1), which ends every request.
UncaughtException(code, hostname) ==
    /\ \A r \in DOMAIN h : h[r].pc # "exited"
    /\ IF IsGatewayFailure(code, hostname)
       THEN \E x \in Reinits :
               /\ h[x].pc = "idle"
               /\ mjInitialized' = FALSE
               /\ h' = [h EXCEPT ![x] = [@ EXCEPT !.pc = "connect", !.retryCount = 0]]
               /\ trace' = Append(trace, [Event("uncaught", x, hostname) EXCEPT
                                              !.err = code, !.out = "reinit"])
       ELSE /\ h' = [r \in DOMAIN h |-> [h[r] EXCEPT !.pc = "exited"]]
            /\ trace' = Append(trace, [Event("uncaught", "", hostname) EXCEPT
                                           !.err = code, !.out = "exit"])
            /\ UNCHANGED mjInitialized
    /\ UNCHANGED <<fs, notHandlers>>

SessionBody(r) ==
    IF r = "q1"
    THEN [NoBody EXCEPT !.originalMessageId = "orig", !.variationNumber = Num(1)]
    ELSE NoBody

InitSession ==
    /\ fs = DiskWith(Doc(<<[key |-> "orig", val |-> OriginalMessage]>>))
    /\ now = TickMs
    /\ tracked = NoTrack
    /\ lastPutTime = 0
    /\ procs = [p \in Procs |-> Idle]
    /\ observed = NotRead
    /\ mjInitialized \in BOOLEAN
    /\ h = [r \in SessionProcs |->
              IF r \in Reinits THEN NoReinit ELSE NewRequest("upscale", SessionBody(r))]
    /\ trace = <<>>

NextSession ==
    \/ \E r \in SessionProcs :
        \/ EnsureReady(r)
        \/ \E code \in ConnectCodes :
              /\ code # "ok" => ConnectFailures < MaxConnectFailures
              /\ Connect(r, code)
        \/ ConnectWaitDone(r)
        \/ ValidateUpscale(r)
        \/ LookupOriginal(r)
        \/ CustomReturns(r, Null)
    \/ \E code \in FaultCodes, hostname \in Hosts : UncaughtException(code, hostname)

SpecSession == InitSession /\ [][NextSession]_vars

(***************************************************************************)
(* Claims about the session.                                               *)
(***************************************************************************)
InEnsureReady(q) == q.pc \in {"start", "connect", "connectWait"}
\* Request r has issued an external call.
Issued(r) == h[r].pc = "call" \/ CallLog(r, "V") # <<>>
\* This step issues an external call of request r.
IssuesCall(r) == h'[r].pc = "call" /\ h[r].pc # "call"
\* The last connection attempt of request r failed.
LastAttemptFailed(r) ==
    LET A == ConnectLog(r)
    IN  A # <<>> /\ A[Len(A)].out # "ok"

EnsureReadyFirst ==
    \A r \in SessionRequests :
        /\ Issued(r) => ~InEnsureReady(h[r]) /\ ~LastAttemptFailed(r)
        /\ LastAttemptFailed(r) =>
             /\ ~Issued(r)
             /\ h[r].pc \in {"connect", "connectWait", "done", "exited"}
             /\ h[r].pc = "done" => h[r].resp.status = 500
EnsureReadyStep ==
    \A r \in SessionRequests :
        /\ InEnsureReady(h[r]) /\ h'[r].pc \notin {"start", "connect", "connectWait", "exited"} =>
             \/ h'[r].pc = "validate" /\ mjInitialized'
             \/ h'[r].pc = "done" /\ h'[r].resp.status = 500
        /\ h[r].pc = "start" /\ mjInitialized /\ h'[r].pc \notin {"start", "exited"} =>
             /\ h'[r].pc = "validate"
             /\ trace' = trace
             /\ mjInitialized'

\* C13 (as amended): a request issues an external call only after its own
\* ensure-ready step has completed with the session Ready; an ensure-ready
\* that starts with the session Ready makes no connection attempt and changes
\* nothing; a request whose ensure-ready fails ends with an error and issues
\* no external call.
C13_EnsureReadyBeforeCalls == []EnsureReadyFirst /\ [][EnsureReadyStep]_vars

\* C13 (as claimed): moreover the session is Ready at every moment an
\* external call is issued, in every interleaving with session events.
C13_CallsOnlyWhileReady ==
    /\ C13_EnsureReadyBeforeCalls
    /\ [][\A r \in SessionRequests : IssuesCall(r) => mjInitialized]_vars

\* One request issued its call after a successful connection attempt of its
\* own, the other ended with an error after a failed one.
C13_Witness ==
    /\ CallLog("q1", "V") # <<>>
    /\ ConnectLog("q1") # <<>> /\ ~LastAttemptFailed("q1")
    /\ LastAttemptFailed("q2")
    /\ h["q2"].pc = "done" /\ h["q2"].resp.status = 500
    /\ ~Issued("q2")

\* This step is an uncaught fault; the fault is the last entry of the log.
Faulted == Len(trace') = Len(trace) + 1 /\ trace'[Len(trace')].ev = "uncaught"
GatewayFault ==
    /\ Faulted
    /\ trace'[Len(trace')].err = "ENOTFOUND"
    /\ trace'[Len(trace')].ctx = "gateway.discord.gg"
SessionStep ==
    /\ mjInitialized /\ ~mjInitialized' => GatewayFault
    /\ GatewayFault =>
         /\ ~mjInitialized'
         /\ \E x \in Reinits : h[x].pc = "idle" /\ h'[x].pc = "connect"
    /\ Faulted /\ ~GatewayFault =>
         /\ mjInitialized' = mjInitialized
         /\ \A r \in DOMAIN h : h'[r].pc = "exited"
    /\ \A x \in Reinits :
         (/\ h[x].pc = "connect" /\ h'[x].pc # "connect"
          /\ Len(trace') > Len(trace)
          /\ trace'[Len(trace')].ev = "init" /\ trace'[Len(trace')].out = "ok")
         => mjInitialized'

\* C18: the session leaves Ready only in a step that handles an uncaught
\* ENOTFOUND fault of the gateway host; that step makes the session
\* Uninitialized and starts a reconnection, whose successful connection
\* attempt makes the session Ready again; every other uncaught fault ends
\* the process, changes no session state and starts no reconnection.
C18_SessionStateMachine == [][SessionStep]_vars

\* The session was made Ready by a request, reset by a gateway fault and
\* made Ready again by the reconnection.
C18_Witness ==
    /\ mjInitialized
    /\ \E i, j, k \in 1..Len(trace) :
          /\ i < j /\ j < k
          /\ trace[i].ev = "init" /\ trace[i].out = "ok" /\ trace[i].r \in SessionRequests
          /\ trace[j].ev = "uncaught" /\ trace[j].out = "reinit"
          /\ trace[k].ev = "init" /\ trace[k].out = "ok" /\ trace[k].r \in Reinits

\* The calls of initializeMidjourney with a connection attempt in flight.
AttemptsInFlight == {r \in SessionProcs : h[r].pc = "connect"}

\* C20: at most one connection attempt is in flight at any time, and no
\* connection attempt is started while the session is Ready.
C20_SingleConnectionAttempt ==
    /\ [](Cardinality(AttemptsInFlight) <= 1)
    /\ [][\A r \in SessionProcs :
             h'[r].pc = "connect" /\ h[r].pc # "connect" => ~mjInitialized']_vars

(***************************************************************************)
(* Claims about the upscale loop and its store writes.                     *)
(***************************************************************************)
\* The positions in the log of the events of request r about the label.
LabelEvents(r, label) ==
    {i \in 1..Len(trace) : trace[i].r = r /\ trace[i].ctx = label}
PaceEvents(r, label) == {i \in LabelEvents(r, label) : trace[i].ev = "pace"}
\* The variation record that safeCall returned to request r.
ReturnedVariation(r) == CallLog(r, "V")[Len(CallLog(r, "V"))].val
\* The request got past step 3: the variation call returned options.
PastStep3(r) ==
    /\ CallLog(r, "V") # <<>>
    /\ CallLog(r, "V")[Len(CallLog(r, "V"))].out = "returned"
    /\ ReturnedVariation(r) # Null
    /\ ReturnedVariation(r).hasOptions

\* C14: within a request the events of U1 all come before those of U2; the
\* events of a label begin with its one pacing delay; a finished request
\* that persisted its variation has waited a delay for U1 and for U2,
\* whether the label was skipped and whether the previous label succeeded;
\* every upscale call passes the id, the flags and the option token of the
\* variation record; the result list is in the order U1, U2.
C14_UpscaleSequencing ==
    \A r \in Requests :
        /\ \A i \in LabelEvents(r, "U1"), j \in LabelEvents(r, "U2") : i < j
        /\ \A label \in {"U1", "U2"} :
             /\ Cardinality(PaceEvents(r, label)) <= 1
             /\ \A i \in LabelEvents(r, label) :
                  \E p \in PaceEvents(r, label) : p <= i
             /\ h[r].pc = "done" /\ VariationPersisted(r) => PaceEvents(r, label) # {}
             /\ \A i \in LabelEvents(r, label) :
                  trace[i].ev = "custom" =>
                      LET v == ReturnedVariation(r)
                          k == FindOption(v.options, label)
                      IN  /\ k # 0
                          /\ trace[i].params = [msgId |-> v.id, flags |-> v.flags,
                                                customId |-> v.options[k].custom]
                          /\ trace[i].params.msgId # OriginalMessage.id
        /\ \A i, j \in 1..Len(h[r].resp.upscaled) :
             i < j => /\ h[r].resp.upscaled[i].label = "U1"
                      /\ h[r].resp.upscaled[j].label = "U2"

\* C15: a request past step 3 puts the variation record once, under the
\* variation id, before any pacing delay and any upscale call, and makes no
\* other put; the store then holds, besides entries it held before, only
\* the variation entry.
C15_OneVariationPut ==
    \A r \in Requests :
        /\ Len(Puts(r)) <= 1
        /\ PastStep3(r) /\ h[r].pc # "save" =>
             /\ Len(Puts(r)) = 1
             /\ Puts(r)[1].out = "ok"
             /\ Puts(r)[1].val = ReturnedVariation(r)
             /\ Lookup(Stored, ReturnedVariation(r).id)
                   = WithTimestamp(ReturnedVariation(r), now)
        /\ \A i \in 1..Len(trace) :
             trace[i].r = r /\ (trace[i].ev = "pace" \/ trace[i].ctx \in {"U1", "U2"}) =>
                 \E p \in 1..(i - 1) : trace[p].ev = "put" /\ trace[p].r = r
        /\ \A k \in StoreIds \cup {"orig", "bare", "var", "up"} :
             ObjHas(Stored, k) =>
                 \/ PastStep3(r) /\ k = ReturnedVariation(r).id
                 \/ Lookup(Stored, k) = OriginalAtArrival(k) /\ OriginalAtArrival(k) # Null

\* A completed request with both upscales in its list and one put.
C15_Witness ==
    \E r \in Requests :
        /\ h[r].pc = "done" /\ h[r].resp.tag = "completed"
        /\ Len(h[r].resp.upscaled) = 2
        /\ Len(Puts(r)) = 1
        /\ ObjHas(Stored, "var") /\ ~ObjHas(Stored, "up")

(***************************************************************************)
(* Claims about concurrent puts.                                           *)
(***************************************************************************)
\* Worker p has completed a put, and without an error.
PutDone(p) == procs[p].pc = "done" /\ procs[p].op = "save"
PutReturned(p) == PutDone(p) /\ ~procs[p].err
StoreQuiet == procs[Boot].pc = "done" /\ \A p \in Workers : procs[p].pc = "idle"

\* C16: every put that completes, completes without raising an error, in
\* every interleaving of concurrent puts on writable storage.
C16_PutsNeverRaise == \A p \in Workers : PutDone(p) => ~procs[p].err

\* C17: two puts of distinct ids that do not overlap (the second starts
\* after the first has returned, with no other store operation running when
\* they start) both return without error and leave both ids in the
\* persisted mapping.
C17_SequentialPutsKeepBoth ==
    \A p \in Workers : \A q \in Workers \ {p} :
        [](StoreQuiet =>
             [](PutReturned(p) /\ procs[q].pc = "idle" =>
                  [](PutDone(q) /\ procs[q].id # procs[p].id =>
                       /\ ~procs[q].err
                       /\ ObjHas(Stored, procs[p].id)
                       /\ ObjHas(Stored, procs[q].id))))

\* C17, the lost update: both puts have returned without error, for distinct
\* ids, and the persisted mapping holds only one of the two.
C17_Witness ==
    /\ \A p \in Workers : PutReturned(p)
    /\ procs["w1"].id # procs["w2"].id
    /\ \E p \in Workers : ~ObjHas(Stored, procs[p].id)
    /\ \E p \in Workers : ObjHas(Stored, procs[p].id)

(***************************************************************************)
(* Termination of an upscale request: every call, delay and file operation *)
(* that is pending eventually returns or raises.                           *)
(***************************************************************************)
SpecUpscaleFair == SpecUpscale /\ WF_vars(NextUpscale)

\* The attempts of the action call made by request r for the call c.
Attempts(r, c) == SelectSeq(CallLog(r, c), LAMBDA e : e.ev = "custom")
Responded(r) == h[r].pc = "done" /\ h[r].resp.status # 0
BoundedWork ==
    \A r \in Requests :
        /\ \A c \in PipelineCalls : Len(Attempts(r, c)) <= 3
        /\ Len(Attempts(r, "V")) + Len(Attempts(r, "U1")) + Len(Attempts(r, "U2")) <= 9
        /\ Cardinality(PaceEvents(r, "U1") \cup PaceEvents(r, "U2")) <= 2
        /\ h[r].pc # "done" => h[r].resp = NoResp
\* A request that has responded does nothing more.
RespondsOnce == \A r \in Requests : h[r].pc = "done" => h'[r] = h[r] /\ trace' = trace

\* C19: every request eventually sends a response, sends none before and
\* none after it, and makes at most 3 attempts of each of its three action
\* calls (9 in all) and waits at most 2 pacing delays.
C19_BoundedWorkOneResponse ==
    /\ <>[](\A r \in Requests : Responded(r))
    /\ []BoundedWork
    /\ [][RespondsOnce]_vars

\* A request that responded after 9 attempts and 2 pacing delays.
C19_Witness ==
    \E r \in Requests :
        /\ Responded(r)
        /\ Len(Attempts(r, "V")) + Len(Attempts(r, "U1")) + Len(Attempts(r, "U2")) = 9
        /\ Cardinality(PaceEvents(r, "U1") \cup PaceEvents(r, "U2")) = 2

====
